---- MODULE Spec2Model ----
(***************************************************************************)
(* XMODEM sender of the RetroCPU program loader (tools/load_program.py):   *)
(* class XModemSender (packet construction, the per-packet exchange, the   *)
(* retry loop and the end-of-transmission exchange) driven over a serial   *)
(* transport whose far end (the monitor firmware) is an environment that   *)
(* may put any control byte into the host's receive buffer.  Around it:     *)
(* load_program (file, port, prompt probe, L command, transfer, J command, *)
(* exit codes), the example loader upload_and_run.py, and the address      *)
(* check of the monitor's L command.                                       *)
(***************************************************************************)
EXTENDS Integers, Sequences, FiniteSets, TLC

\* ------------------------------------------------------------------ bounds
MaxLen == 257          \* longest payload handed to send_file
MaxSeed == 1           \* payload contents are PayloadByte(seed, i), seed in 0..MaxSeed
MaxRetries == 3        \* largest max_retries argument of send_file
MaxRx == 1             \* capacity of the host's receive buffer
ReadyTicks == 2         \* the ready timeout of send_file, in sleeps of its loop
MaxCalls == 2          \* send_file calls on one sender object (SpecReuse)
WrapFrom == 255        \* packet number at which SpecWrap starts to observe
MaxText == 2           \* capacity of the receive buffer while the monitor prints text
AddrSpan == 16         \* load addresses explored on either side of each limit

\* ------------------------------------------------------- program constants
SOH == 1
EOT == 4
ACK == 6
NAK == 21
CAN == 24
PromptChar == 62       \* '>' : a byte of monitor text, no XMODEM control byte
BlockSize == 128
Space == 32            \* ' ', the second character of the prompt "> "
DefaultMaxRetries == 10  \* send_file's default max_retries, which load_program uses
MinLoadAddress == 512  \* $0200, the lowest address the L command accepts
MaxLoadAddress == 32767  \* $7FFF, the highest address the L command accepts
LoadAddress == 768     \* $0300, where the monitor's L command loads and J jumps

TIMEOUT == 0 - 1       \* ser.read(1) returned b'' (len(response) == 0)
NONE == 0 - 2          \* nothing read yet

Min(a, b) == IF a < b THEN a ELSE b
Max(a, b) == IF a > b THEN a ELSE b

\* ---------------------------------------------------------------- payload
\* The bytes of the binary file: byte i (0-based) of the payload with the
\* given seed.  Seed 0 is an all-zero file, the others run through 0..255.
PayloadByte(seed, i) == (seed * (i + 3)) % 256

\* The payload lengths explored: the lengths next to a multiple of the block
\* size, a short program, and the longest length.
Lengths ==
  {L \in 1..MaxLen : L % BlockSize \in {0, 1, BlockSize - 1} \/ L = 24 \/ L = MaxLen}

VARIABLES
  data_len,       \* len(data), the payload given to send_file
  data_seed,      \* its contents: data[i] = PayloadByte(data_seed, i)
  max_retries,    \* send_file's max_retries argument
  calls_left,     \* send_file calls still to be made on this sender
  pc,             \* position of the sender inside send_file
  packet_num,     \* self.packet_num
  offset,         \* send_file's local offset
  packets_sent,   \* send_file's local packets_sent
  total_packets,  \* send_file's local total_packets
  retries,        \* send_file's local retries
  chunk,          \* send_file's local chunk
  result,         \* send_file's return value: "none" while running
  message,        \* the final line send_file printed
  rxbuf,          \* the serial input buffer (bytes received, not yet read)
  written,        \* every write to the transport, in order
  mark,           \* Len(written) when the current send_file call began
  acked,          \* payload fields of the packets that were answered by an ACK byte
  chunks,         \* the chunks sliced at the top of the outer loop, in order
  got_ready,      \* the wait for the receiver ended on a NAK byte read from the line
  last_resp,      \* what was read after the latest packet write (NONE: not read yet)
  naks,           \* NAK responses read for the current chunk
  tx_count,       \* transmissions of the current chunk
  eot_resp,       \* response read after the end-of-transmission byte
  can_seen,       \* during a load, a CAN byte was read in response to a packet
  lpc,            \* position inside load_program / upload_and_run ("none": not running)
  file_state,     \* what open(binary_path) finds: "ok", "missing" or "unreadable"
  execute,        \* load_program's execute argument
  port,           \* the serial handle: "unopened", "failed", "open" or "closed"
  exit_code,      \* load_program's return value (NONE while running)
  arrived,        \* the bytes that arrived since reset_input_buffer and are not read yet
  stale_prompt,   \* the running prompt probe began by discarding a buffered prompt
  target_address, \* the load address
  validation,     \* the monitor's verdict on the load address ("none": not asked)
  readback,       \* the byte the monitor reports at the load address
  call,           \* the monitor-session call under way: operation, arguments, monitor's reply
  buffer,         \* the text the running read loop has accumulated
  pending,        \* the part of the monitor's reply that has not reached the line yet
  ticks,          \* sleeps of the running read loop since its start_time
  mret,           \* what the monitor-session call returned (kind "running": not yet)
  first_nak,      \* upload_file's first_nak[0]
  getc_log,       \* the getc calls made: size, bytes taken off the line, value returned
  emitted         \* for each byte the monitor put on the line, in order, the
                  \* number of the write it answers (0: the ready byte)

vars == <<data_len, data_seed, max_retries, calls_left, pc, packet_num, offset,
          packets_sent, total_packets, retries, chunk, result, message, rxbuf,
          written, mark, acked, chunks, got_ready, last_resp, naks, tx_count,
          eot_resp, can_seen, lpc, file_state, execute, port, exit_code, arrived,
          stale_prompt, target_address, validation, readback, call, buffer,
          pending, ticks, mret, first_nak, getc_log, emitted>>

\* the state of a monitor-session call, of upload_file's getc and of the
\* monitor's record of its answers
monvars == <<call, buffer, pending, mret, first_nak, getc_log, emitted>>

\* the arguments of the call and the call budget
argvars == <<data_len, data_seed, max_retries, calls_left>>

\* the state of the loader around the sender
loadvars == <<lpc, file_state, execute, port, exit_code, arrived, stale_prompt,
              target_address, validation, readback>>

\* data[i] for 0 <= i < len(data)
data(i) == PayloadByte(data_seed, i)

\* the whole payload as a sequence
Payload == [i \in 1..data_len |-> data(i - 1)]

\* a slice that stops one byte early
DataSlice_Short(a, b) ==
  LET lo == Min(a, data_len)
      hi == Min(b - 1, data_len)
  IN  [k \in 1..Max(0, hi - lo) |-> data(lo + k - 1)]

\* data[a:b]
DataSlice(a, b) ==
  LET lo == Min(a, data_len)
      hi == Min(b, data_len)
  IN  [k \in 1..Max(0, hi - lo) |-> data(lo + k - 1)]

\* b'\x00' * n
Zeros(n) == [k \in 1..Max(0, n) |-> 0]

\* sum(s[lo..hi]), halving the range
SumRange(s, lo, hi) ==
  LET part[r \in (lo..hi) \X (lo..hi)] ==
        IF r[1] = r[2] THEN s[r[1]]
        ELSE LET mid == (r[1] + r[2]) \div 2
             IN  part[<<r[1], mid>>] + part[<<mid + 1, r[2]>>]
  IN  IF lo > hi THEN 0 ELSE part[<<lo, hi>>]

\* sum(s)
Sum(s) == SumRange(s, 1, Len(s))

\* a checksum that is not reduced to 8 bits
ChecksumNoMask(d) == Sum(d)

\* XModemSender.calculate_checksum
calculate_checksum(d) == Sum(d) % 256

\* the two's complement, (-n) & 0xFF
BitNot8_Neg(n) == (0 - n) % 256

\* (~n) & 0xFF on a Python int
BitNot8(n) == (0 - n - 1) % 256

\* a sequence byte that wraps one early, 254 -> 0
SeqByte_Mod255(pn) == pn % 255

\* self.packet_num & 0xFF
SeqByte(pn) == pn % 256

\* a block padded with the SUB byte 0x1A, the usual XMODEM filler
PadBlock_Sub(d) == d \o [k \in 1..Max(0, BlockSize - Len(d)) |-> 26]

\* packet_data of send_packet
PadBlock(d) == d \o Zeros(BlockSize - Len(d))

\* the packet send_packet builds
BuildPacket(pn, d) ==
  <<SOH, SeqByte(pn), BitNot8(pn)>> \o PadBlock(d) \o <<calculate_checksum(PadBlock(d))>>

\* the writes of the current send_file call
Sent == SubSeq(written, mark + 1, Len(written))

\* ------------------------------------------------------------------- init
\* XModemSender.__init__ on a freshly opened transport
InitSender ==
  /\ pc = "idle"
  /\ packet_num = 1
  /\ offset = 0
  /\ packets_sent = 0
  /\ total_packets = 0
  /\ retries = 0
  /\ chunk = <<>>
  /\ result = "none"
  /\ message = "none"
  /\ rxbuf = <<>>
  /\ written = <<>>
  /\ mark = 0
  /\ acked = <<>>
  /\ chunks = <<>>
  /\ got_ready = FALSE
  /\ last_resp = NONE
  /\ naks = 0
  /\ tx_count = 0
  /\ eot_resp = NONE
  /\ can_seen = FALSE

\* send_file driven directly on an open transport: no loader around it, the
\* load address is the monitor's fixed $0300
NoLoad ==
  /\ lpc = "none"
  /\ file_state = "ok"
  /\ execute = FALSE
  /\ port = "open"
  /\ exit_code = NONE
  /\ arrived = <<>>
  /\ stale_prompt = FALSE
  /\ target_address = LoadAddress
  /\ validation = "none"
  /\ readback = NONE

\* no monitor-session call is under way
NoMonitor ==
  /\ call = [op |-> "none", address |-> <<>>, value |-> <<>>, response |-> <<>>]
  /\ buffer = <<>>
  /\ pending = <<>>
  /\ ticks = 0
  /\ mret = [kind |-> "running", text |-> <<>>]
  /\ first_nak = FALSE
  /\ getc_log = <<>>
  /\ emitted = <<>>

\* one send_file call per sender, as load_program makes it
Init ==
  /\ data_len \in Lengths
  /\ data_seed \in 0..MaxSeed
  /\ max_retries \in 0..MaxRetries
  /\ calls_left = 1
  /\ InitSender
  /\ NoMonitor
  /\ NoLoad

\* ---------------------------------------------------------------- actions
\* send_file is called with (data, max_retries)
SendFile_Call ==
  /\ pc \in {"idle", "returned"}
  /\ lpc \in {"none", "transfer", "t_transfer"}
  /\ calls_left > 0
  /\ calls_left' = calls_left - 1
  /\ pc' = "await_nak"
  /\ result' = "none"
  /\ message' = "none"
  /\ mark' = Len(written)
  /\ acked' = <<>>
  /\ chunks' = <<>>
  /\ got_ready' = FALSE
  /\ last_resp' = NONE
  /\ naks' = 0
  /\ tx_count' = 0
  /\ eot_resp' = NONE
  /\ can_seen' = FALSE
  /\ ticks' = 0
  /\ UNCHANGED <<data_len, data_seed, max_retries, packet_num, offset, packets_sent,
                 total_packets, retries, chunk, rxbuf, written>>
  /\ UNCHANGED <<loadvars, monvars>>

\* `return False` with the given final message
Fail(msg) ==
  /\ pc' = "returned"
  /\ result' = "False"
  /\ message' = msg

\* retry conditions that are off by one, one way and the other
RetryAllowed_Inclusive(r, mr) == r <= mr
RetryAllowed_Strict(r, mr) == r + 1 < mr

\* a retry condition that allows twice the budget
RetryAllowed_Double(r, mr) == r < 2 * mr

\* the inner loop's condition, `while retries < max_retries`
RetryAllowed(r, mr) == r < mr

\* an outer loop that carries the retries of one chunk over to the next
OuterLoop_KeepRetries(off) ==
  IF off < data_len
  THEN /\ chunk' = DataSlice(off, off + BlockSize)
       /\ chunks' = Append(chunks, DataSlice(off, off + BlockSize))
       /\ retries' = retries
       /\ IF RetryAllowed(retries, max_retries)
          THEN pc' = "send" /\ UNCHANGED <<result, message>>
          ELSE Fail("max_retries")
  ELSE /\ pc' = "send_eot"
       /\ UNCHANGED <<chunk, chunks, retries, result, message>>

\* The head of the outer loop, `while offset < len(data)`, entered with
\* offset = off: slice the chunk, reset retries and enter the inner loop.
OuterLoop(off) ==
  IF off < data_len
  THEN /\ chunk' = DataSlice(off, off + BlockSize)
       /\ chunks' = Append(chunks, DataSlice(off, off + BlockSize))
       /\ retries' = 0
       /\ IF RetryAllowed(0, max_retries)
          THEN pc' = "send" /\ UNCHANGED <<result, message>>
          ELSE Fail("max_retries")
  ELSE /\ pc' = "send_eot"
       /\ UNCHANGED <<chunk, chunks, retries, result, message>>

\* a sender that takes any received byte for the receiver's ready byte
IsReady_Any(b) == b = b

\* `ch[0] == self.NAK` in the wait for the receiver
IsReady(b) == b = NAK

\* a clock that starts again with every byte read
AfterPass_Restart(t, b) == IF b = NONE THEN (t + 1)..(ReadyTicks + 1) ELSE {0}

\* The clock after one more pass of the wait that began at clock t and read
\* b (NONE: nothing was waiting): a pass takes one sleep at least, and no
\* longer than it takes the deadline to pass.
AfterPass(t, b) == (t + 1)..(ReadyTicks + 1)

\* `time.time() - start_time > 3`
ReadyExpired(t) == t > ReadyTicks

\* One pass of the wait for the receiver's initial NAK: read one byte if one
\* is waiting, then look at the clock, then sleep.  ticks is the time since
\* start_time; it is dead after the loop and is left at 0.
AwaitNak ==
  /\ pc = "await_nak"
  /\ IF rxbuf # <<>> /\ IsReady(Head(rxbuf))
     THEN /\ rxbuf' = Tail(rxbuf)
          /\ got_ready' = (Head(rxbuf) = NAK)
          /\ offset' = 0
          /\ packets_sent' = 0
          /\ total_packets' = (data_len + 127) \div 128
          /\ ticks' = 0
          /\ OuterLoop(0)
     ELSE /\ rxbuf' = IF rxbuf # <<>> THEN Tail(rxbuf) ELSE rxbuf
          /\ IF ReadyExpired(ticks)
             THEN Fail("ready_timeout") /\ ticks' = 0
             ELSE /\ ticks' \in AfterPass(ticks, IF rxbuf # <<>> THEN Head(rxbuf) ELSE NONE)
                  /\ UNCHANGED <<pc, result, message>>
          /\ UNCHANGED <<offset, packets_sent, total_packets, chunk, chunks, retries,
                         got_ready>>
  /\ UNCHANGED <<argvars, packet_num, written, mark, acked, last_resp, naks, tx_count,
                 eot_resp, can_seen>>
  /\ UNCHANGED <<loadvars, monvars>>

\* send_packet up to the write: build the packet and write it at once.
SendPacket_Write ==
  /\ pc = "send"
  /\ written' = Append(written, BuildPacket(packet_num, chunk))
  /\ pc' = "wait_ack"
  /\ last_resp' = NONE
  /\ naks' = IF retries = 0 THEN 0 ELSE naks
  /\ tx_count' = IF retries = 0 THEN 1 ELSE tx_count + 1
  /\ UNCHANGED <<argvars, packet_num, offset, packets_sent, total_packets, retries,
                 chunk, result, message, rxbuf, mark, acked, chunks, got_ready,
                 eot_resp, can_seen>>
  /\ UNCHANGED <<loadvars, monvars, ticks>>

\* ser.read(1): the oldest buffered byte, or nothing after the read timeout
ReadByte == IF rxbuf = <<>> THEN TIMEOUT ELSE Head(rxbuf)

\* a read that leaves the byte in the buffer
AfterRead_Peek == rxbuf

\* the input buffer after ser.read(1)
AfterRead == IF rxbuf = <<>> THEN rxbuf ELSE Tail(rxbuf)

\* a classification that takes silence for an acknowledgement
IsAck_OrTimeout(r) == r = ACK \/ r = TIMEOUT

\* a classification that takes an unexpected byte for an acknowledgement
IsAck_OrOther(r) == r \notin {NAK, CAN, TIMEOUT}

\* send_packet's classification of the response: True only for an ACK byte
IsAck(r) == r = ACK

\* an offset that advances by a whole block, as upload_xmodem.py does
Advance_Block(off, c) == off + BlockSize

\* `offset += len(chunk)`
Advance(off, c) == off + Len(c)

\* a percentage that counts the packet about to be sent
Percent_OfNext(ps, tp) == ((ps + 1) * 100) \div tp

\* `percent = (packets_sent * 100) // total_packets`
Percent(ps, tp) == (ps * 100) \div tp

\* send_packet from the read on, and the part of send_file's loops that runs
\* until the next write or the return.
SendPacket_Read ==
  /\ pc = "wait_ack"
  /\ rxbuf' = AfterRead
  /\ last_resp' = ReadByte
  /\ naks' = IF ReadByte = NAK THEN naks + 1 ELSE naks
  /\ acked' = IF ReadByte = ACK
               THEN Append(acked, SubSeq(written[Len(written)], 4, 3 + BlockSize))
               ELSE acked
  /\ IF IsAck(ReadByte)
     THEN /\ packet_num' = packet_num + 1
          /\ offset' = Advance(offset, chunk)
          /\ packets_sent' = packets_sent + 1
          /\ OuterLoop(Advance(offset, chunk))
     ELSE /\ retries' = retries + 1
          /\ IF RetryAllowed(retries + 1, max_retries)
             THEN pc' = "send" /\ UNCHANGED <<result, message>>
             ELSE Fail("max_retries")
          /\ UNCHANGED <<packet_num, offset, packets_sent, chunk, chunks>>
  /\ can_seen' = (can_seen \/ (lpc = "transfer" /\ ReadByte = CAN))
  /\ UNCHANGED <<argvars, total_packets, written, mark, got_ready, tx_count, eot_resp>>
  /\ UNCHANGED <<loadvars, monvars, ticks>>

\* the end-of-transmission byte is written
SendEOT_Write ==
  /\ pc = "send_eot"
  /\ written' = Append(written, <<EOT>>)
  /\ pc' = "wait_eot"
  /\ UNCHANGED <<argvars, packet_num, offset, packets_sent, total_packets, retries,
                 chunk, result, message, rxbuf, mark, acked, chunks, got_ready,
                 last_resp, naks, tx_count, eot_resp, can_seen>>
  /\ UNCHANGED <<loadvars, monvars, ticks>>

\* the response to the end-of-transmission byte decides the return value
SendEOT_Read ==
  /\ pc = "wait_eot"
  /\ rxbuf' = AfterRead
  /\ eot_resp' = ReadByte
  /\ pc' = "returned"
  /\ IF IsAck(ReadByte)
     THEN result' = "True" /\ message' = "complete"
     ELSE result' = "False" /\ message' = "no_eot_ack"
  /\ UNCHANGED <<argvars, packet_num, offset, packets_sent, total_packets, retries,
                 chunk, written, mark, acked, chunks, got_ready, last_resp, naks,
                 tx_count, can_seen>>
  /\ UNCHANGED <<loadvars, monvars, ticks>>

\* what the far end may put on the line
PeerBytes == {ACK, NAK, CAN, PromptChar}

\* The far end puts one byte on the line while a send_file call is running.
PeerSend ==
  /\ pc \notin {"idle", "returned", "raised"}
  /\ Len(rxbuf) < MaxRx
  /\ \E b \in PeerBytes : rxbuf' = Append(rxbuf, b)
  /\ UNCHANGED <<argvars, pc, packet_num, offset, packets_sent, total_packets,
                 retries, chunk, result, message, written, mark, acked, chunks,
                 got_ready, last_resp, naks, tx_count, eot_resp, can_seen>>
  /\ UNCHANGED <<loadvars, monvars, ticks>>

Next ==
  \/ SendFile_Call
  \/ AwaitNak
  \/ SendPacket_Write
  \/ SendPacket_Read
  \/ SendEOT_Write
  \/ SendEOT_Read
  \/ PeerSend

Spec == Init /\ [][Next]_vars

\* --------------------------------------------- a sender that keeps running
\* One send_file call on payloads of one and of two chunks; the thread inside
\* send_file keeps running: every write completes, every read returns or
\* times out and every sleep ends.  Nothing is assumed of the receiver.
InitTerminates ==
  /\ data_len \in {1, BlockSize + 1}
  /\ data_seed = 0
  /\ max_retries \in 0..MaxRetries
  /\ calls_left = 1
  /\ InitSender
  /\ NoMonitor
  /\ NoLoad

\* a step of the thread that runs send_file
SenderStep ==
  \/ SendFile_Call
  \/ AwaitNak
  \/ SendPacket_Write
  \/ SendPacket_Read
  \/ SendEOT_Write
  \/ SendEOT_Read

SpecTerminates == InitTerminates /\ [][Next]_vars /\ WF_vars(SenderStep)

\* ------------------------------------------------- a sender object reused
\* The same XModemSender object serves up to MaxCalls send_file calls.
InitReuse ==
  /\ data_len \in {L \in Lengths : L <= BlockSize + 1}
  /\ data_seed \in 0..MaxSeed
  /\ max_retries \in 0..MaxRetries
  /\ calls_left = MaxCalls
  /\ InitSender
  /\ NoMonitor
  /\ NoLoad

SpecReuse == InitReuse /\ [][Next]_vars

\* ---------------------------------------------- a transfer at the 8-bit wrap
\* A long transfer observed from its WrapFrom-th packet on: the state of
\* send_file after the receiver's NAK and WrapFrom - 1 packets that were each
\* acknowledged (the log and the per-transfer records start empty here).
\* The payload ends one byte into the third chunk from there.
InitWrap ==
  /\ data_len = (WrapFrom + 1) * BlockSize + 1
  /\ data_seed \in 0..MaxSeed
  /\ max_retries \in 1..MaxRetries
  /\ calls_left = 0
  /\ pc = "send"
  /\ packet_num = WrapFrom
  /\ offset = (WrapFrom - 1) * BlockSize
  /\ packets_sent = WrapFrom - 1
  /\ total_packets = (data_len + 127) \div 128
  /\ retries = 0
  /\ chunk = DataSlice(offset, offset + BlockSize)
  /\ result = "none"
  /\ message = "none"
  /\ rxbuf = <<>>
  /\ written = <<>>
  /\ mark = 0
  /\ acked = <<>>
  /\ chunks = <<chunk>>
  /\ got_ready = TRUE
  /\ last_resp = NONE
  /\ naks = 0
  /\ tx_count = 0
  /\ eot_resp = NONE
  /\ can_seen = FALSE
  /\ NoLoad
  /\ NoMonitor

\* the steps of a transfer that is past the wait for the receiver
NextTransfer ==
  \/ SendPacket_Write
  \/ SendPacket_Read
  \/ SendEOT_Write
  \/ SendEOT_Read
  \/ PeerSend

SpecWrap == InitWrap /\ [][NextTransfer]_vars


\* ------------------------------------------------------------ load_program
\* b'\r', written to get a fresh prompt
ProbeCmd == <<13>>

\* b'L\r', the monitor's command to start the XMODEM receive
LoadCmd == <<76, 13>>

\* a loader that starts the program with the monitor's G command
RunCmd_G == <<71, 13>>

\* b'J\r', the monitor's command to jump to the loaded program
RunCmd == <<74, 13>>

\* the binary file sizes explored: an empty file and a 24-byte program
FileSizes == {0, 24}

\* `'> ' in response`
HasPrompt(s) == \E i \in 1..(Len(s) - 1) : s[i] = PromptChar /\ s[i + 1] = Space

\* an input buffer that is not cleared
reset_input_buffer_Keep(buf) == buf

\* ser.reset_input_buffer(): what was received so far is discarded
reset_input_buffer(buf) == SubSeq(buf, 1, 0)

\* a handle that stays as it is when the block is left
PortAfterExit_Leak(p) == p

\* leaving `with serial.Serial(...) as ser`, by return or by exception,
\* closes the handle if it was opened
PortAfterExit(p) == IF p = "open" THEN "closed" ELSE p

\* load_program returns `code`
LoadExit(code) ==
  /\ lpc' = "exited"
  /\ exit_code' = code
  /\ port' = PortAfterExit(port)

\* the sequence number named by the last line send_file printed: its lines
\* "ERROR: Timeout waiting for receiver", "ERROR: Max retries exceeded",
\* "ERROR: No ACK for EOT" and "Transfer complete!" name none
ReportedSequence(msg) == NONE

\* an exception leaves send_file where it was
Unwind == pc' = IF pc \in {"idle", "returned"} THEN pc ELSE "raised"

sendervars == <<pc, packet_num, offset, packets_sent, total_packets, retries, chunk,
                result, message, mark, acked, chunks, got_ready, last_resp, naks,
                tx_count, eot_resp, can_seen>>

\* load_program(binary_path, execute=...) is called
InitLoad ==
  /\ data_len \in FileSizes
  /\ data_seed = MaxSeed
  /\ max_retries = DefaultMaxRetries
  /\ calls_left = 1
  /\ InitSender
  /\ NoMonitor
  /\ lpc = "start"
  /\ file_state \in {"ok", "missing", "unreadable"}
  /\ execute \in BOOLEAN
  /\ port = "unopened"
  /\ exit_code = NONE
  /\ arrived = <<>>
  /\ stale_prompt = FALSE
  /\ target_address = LoadAddress
  /\ validation = "none"
  /\ readback = NONE

\* a loader that takes every file for a program
IsEmptyFile_Never(n) == FALSE

\* `len(binary_data) == 0`
IsEmptyFile(n) == n = 0

\* the binary file is read; a missing, unreadable or empty file ends the load
Load_ReadFile ==
  /\ lpc = "start"
  /\ IF file_state # "ok" \/ IsEmptyFile(data_len)
     THEN LoadExit(1)
     ELSE lpc' = "opening" /\ UNCHANGED <<exit_code, port>>
  /\ UNCHANGED <<monvars, ticks, argvars, sendervars, rxbuf, written, file_state, execute, arrived,
                 stale_prompt, target_address, validation, readback>>

\* serial.Serial(port, baud, timeout=2): the port opens or SerialException
Load_Open ==
  /\ lpc = "opening"
  /\ \/ port' = "open" /\ lpc' = "opened" /\ UNCHANGED exit_code
     \/ port' = "failed" /\ lpc' = "exited" /\ exit_code' = 2
  /\ UNCHANGED <<monvars, ticks, argvars, sendervars, rxbuf, written, file_state, execute, arrived,
                 stale_prompt, target_address, validation, readback>>

\* after the settling sleep: discard pending input and ask for a prompt
Load_Probe ==
  /\ lpc = "opened"
  /\ stale_prompt' = HasPrompt(rxbuf)
  /\ rxbuf' = reset_input_buffer(rxbuf)
  /\ arrived' = <<>>
  /\ written' = Append(written, ProbeCmd)
  /\ lpc' = "probed"
  /\ UNCHANGED <<monvars, ticks, argvars, sendervars, file_state, execute, port, exit_code,
                 target_address, validation, readback>>

\* read_all() after the sleep: without "> " in it the load ends, with it the
\* L command is written
Load_CheckPrompt ==
  /\ lpc = "probed"
  /\ rxbuf' = <<>>
  /\ arrived' = <<>>
  /\ IF HasPrompt(rxbuf)
     THEN /\ written' = Append(written, LoadCmd)
          /\ lpc' = "transfer"
          /\ stale_prompt' = FALSE
          /\ UNCHANGED <<exit_code, port>>
     ELSE /\ LoadExit(1)
          /\ UNCHANGED <<written, stale_prompt>>
  /\ UNCHANGED <<monvars, ticks, argvars, sendervars, file_state, execute, target_address, validation,
                 readback>>

\* send_file has returned: a failed transfer ends the load, a completed one
\* is followed by read_all() and, if asked for, the J command
Load_AfterTransfer ==
  /\ lpc = "transfer"
  /\ pc = "returned"
  /\ IF result # "True"
     THEN /\ LoadExit(1)
          /\ UNCHANGED <<rxbuf, written>>
     ELSE /\ rxbuf' = <<>>
          /\ IF execute
             THEN /\ written' = Append(written, RunCmd)
                  /\ lpc' = "executed"
                  /\ UNCHANGED <<exit_code, port>>
             ELSE /\ LoadExit(0)
                  /\ UNCHANGED written
  /\ UNCHANGED <<monvars, ticks, argvars, sendervars, file_state, execute, arrived, stale_prompt,
                 target_address, validation, readback>>

\* the program's output was read and printed
Load_Finish ==
  /\ lpc = "executed"
  /\ rxbuf' = <<>>
  /\ LoadExit(0)
  /\ UNCHANGED <<monvars, ticks, argvars, sendervars, written, file_state, execute, arrived,
                 stale_prompt, target_address, validation, readback>>

\* KeyboardInterrupt anywhere inside the try block
Load_Interrupt ==
  /\ lpc \in {"opening", "opened", "probed", "transfer", "executed"}
  /\ LoadExit(1)
  /\ Unwind
  /\ UNCHANGED <<monvars, ticks, argvars, packet_num, offset, packets_sent, total_packets, retries,
                 chunk, result, message, mark, acked, chunks, got_ready, last_resp,
                 naks, tx_count, eot_resp, can_seen, rxbuf, written, file_state,
                 execute, arrived, stale_prompt, target_address, validation, readback>>

\* SerialException from a read, write or flush on the open port
Load_SerialError ==
  /\ lpc \in {"opened", "probed", "transfer", "executed"}
  /\ LoadExit(2)
  /\ Unwind
  /\ UNCHANGED <<monvars, ticks, argvars, packet_num, offset, packets_sent, total_packets, retries,
                 chunk, result, message, mark, acked, chunks, got_ready, last_resp,
                 naks, tx_count, eot_resp, can_seen, rxbuf, written, file_state,
                 execute, arrived, stale_prompt, target_address, validation, readback>>

\* the characters the monitor prints
TextBytes == {PromptChar, Space}

\* the monitor prints a character before the L command is given
PeerText ==
  /\ lpc \in {"opened", "probed"}
  /\ Len(rxbuf) < MaxText
  /\ \E b \in TextBytes :
       /\ rxbuf' = Append(rxbuf, b)
       /\ arrived' = IF lpc = "probed" THEN Append(arrived, b) ELSE arrived
  /\ UNCHANGED <<monvars, ticks, argvars, sendervars, written, lpc, file_state, execute, port,
                 exit_code, stale_prompt, target_address, validation, readback>>

NextLoad ==
  \/ Load_ReadFile
  \/ Load_Open
  \/ Load_Probe
  \/ Load_CheckPrompt
  \/ SendFile_Call
  \/ AwaitNak
  \/ SendPacket_Write
  \/ SendPacket_Read
  \/ SendEOT_Write
  \/ SendEOT_Read
  \/ Load_AfterTransfer
  \/ Load_Finish
  \/ Load_Interrupt
  \/ Load_SerialError
  \/ PeerSend
  \/ PeerText

SpecLoad == InitLoad /\ [][NextLoad]_vars


\* ------------------------------------------- the monitor's address check
\* The load addresses explored: both ends of the address space and the
\* addresses around the two limits.
Addresses ==
  {0, 65535}
    \cup ((MinLoadAddress - AddrSpan)..(MinLoadAddress + AddrSpan))
    \cup ((MaxLoadAddress - AddrSpan)..(MaxLoadAddress + 1 + AddrSpan))

\* a check that also rejects the limits themselves
validate_Exclusive(addr) ==
  IF addr <= MinLoadAddress THEN "TooLow"
  ELSE IF addr >= MaxLoadAddress THEN "InReservedSpace"
  ELSE "Ok"

\* The L command's check of its address: below $0200 is too low, above
\* $7FFF is ROM/IO space.
validate(addr) ==
  IF addr < MinLoadAddress THEN "TooLow"
  ELSE IF addr > MaxLoadAddress THEN "InReservedSpace"
  ELSE "Ok"

\* the monitor is given a load address
InitValidate ==
  /\ data_len = 24
  /\ data_seed = 0
  /\ max_retries = 0
  /\ calls_left = 0
  /\ InitSender
  /\ NoMonitor
  /\ lpc = "ask"
  /\ file_state = "ok"
  /\ execute = FALSE
  /\ port = "open"
  /\ exit_code = NONE
  /\ arrived = <<>>
  /\ stale_prompt = FALSE
  /\ target_address \in Addresses
  /\ validation = "none"
  /\ readback = NONE

\* the monitor checks the address of an L command
Monitor_Validate ==
  /\ lpc = "ask"
  /\ validation' = validate(target_address)
  /\ lpc' = "answered"
  /\ UNCHANGED <<monvars, ticks, argvars, pc, packet_num, offset, packets_sent, total_packets,
                 retries, chunk, result, message, rxbuf, written, mark, acked,
                 chunks, got_ready, last_resp, naks, tx_count, eot_resp, can_seen,
                 file_state, execute, port, exit_code, arrived, stale_prompt,
                 target_address, readback>>

NextValidate == Monitor_Validate

SpecValidate == InitValidate /\ [][NextValidate]_vars


\* ---------------------------------------------------------- upload_and_run
\* one hexadecimal digit as an upper-case ASCII character
HexDigit(d) == IF d < 10 THEN 48 + d ELSE 55 + d

\* f'{addr:04X}'
Hex4(addr) ==
  <<HexDigit((addr \div 4096) % 16), HexDigit((addr \div 256) % 16),
    HexDigit((addr \div 16) % 16), HexDigit(addr % 16)>>

\* f'E {load_address:04X}\r', the monitor's examine command
ExamineCmd(addr) == <<69, 32>> \o Hex4(addr) \o <<13>>

\* what the monitor may report as the byte at the load address: the first
\* byte of the file, or something else
ReadbackBytes == {PayloadByte(data_seed, 0), 255}

\* upload_and_run(port, binary_file, load_address) is called
InitUploadAndRun ==
  /\ data_len = 24
  /\ data_seed = MaxSeed
  /\ max_retries = 0
  /\ calls_left = 0
  /\ InitSender
  /\ NoMonitor
  /\ lpc = "ur_start"
  /\ file_state = "ok"
  /\ execute = FALSE
  /\ port = "unopened"
  /\ exit_code = NONE
  /\ arrived = <<>>
  /\ stale_prompt = FALSE
  /\ target_address \in Addresses
  /\ validation = "none"
  /\ readback = NONE

urvars == <<monvars, ticks, argvars, pc, packet_num, offset, packets_sent, total_packets, retries,
            chunk, message, mark, acked, chunks, got_ready, last_resp, naks,
            tx_count, eot_resp, can_seen, file_state, execute, exit_code, arrived,
            stale_prompt, target_address, validation>>

\* open the port, clear the buffers and send '\r' for a fresh prompt
UR_Probe ==
  /\ lpc = "ur_start"
  /\ port' = "open"
  /\ rxbuf' = reset_input_buffer(rxbuf)
  /\ written' = Append(written, ProbeCmd)
  /\ lpc' = "ur_probed"
  /\ UNCHANGED <<urvars, result, readback>>

\* the response is read and dropped, the L command is sent
UR_BeginReceive ==
  /\ lpc = "ur_probed"
  /\ rxbuf' = <<>>
  /\ written' = Append(written, LoadCmd)
  /\ lpc' = "ur_transfer"
  /\ UNCHANGED <<urvars, result, port, readback>>

\* modem.send(f) of the xmodem package returns its verdict (the package's
\* own writes are not recorded)
UR_Send ==
  /\ lpc = "ur_transfer"
  /\ rxbuf' = <<>>
  /\ result' \in {"True", "False"}
  /\ lpc' = "ur_sent"
  /\ UNCHANGED <<urvars, written, port, readback>>

\* after a successful send: one examine command at the load address, whose
\* output is printed; then the port is closed and success is returned
UR_Verify ==
  /\ lpc = "ur_sent"
  /\ IF result = "True"
     THEN /\ written' = Append(written, ExamineCmd(target_address))
          /\ readback' \in ReadbackBytes
     ELSE UNCHANGED <<written, readback>>
  /\ port' = "closed"
  /\ lpc' = "ur_done"
  /\ UNCHANGED <<urvars, result, rxbuf>>

NextUploadAndRun ==
  \/ UR_Probe
  \/ UR_BeginReceive
  \/ UR_Send
  \/ UR_Verify

SpecUploadAndRun == InitUploadAndRun /\ [][NextUploadAndRun]_vars

\* ------------------------------------------------ send_packet called alone
\* send_packet(data) is called once on a fresh XModemSender, as a test does
\* that builds single packets; data is whatever the caller passes.

\* the sizes of the data passed
ChunkSizes == (0..2) \cup ((BlockSize - 1)..(BlockSize + 1))

InitPacket ==
  /\ data_len \in ChunkSizes
  /\ data_seed \in 0..MaxSeed
  /\ max_retries = 0
  /\ calls_left = 0
  /\ pc = "send"
  /\ packet_num = 1
  /\ offset = 0
  /\ packets_sent = 0
  /\ total_packets = 0
  /\ retries = 0
  /\ chunk = Payload
  /\ result = "none"
  /\ message = "none"
  /\ rxbuf = <<>>
  /\ written = <<>>
  /\ mark = 0
  /\ acked = <<>>
  /\ chunks = <<>>
  /\ got_ready = FALSE
  /\ last_resp = NONE
  /\ naks = 0
  /\ tx_count = 0
  /\ eot_resp = NONE
  /\ can_seen = FALSE
  /\ lpc = "packet"
  /\ file_state = "ok"
  /\ execute = FALSE
  /\ port = "open"
  /\ exit_code = NONE
  /\ arrived = <<>>
  /\ stale_prompt = FALSE
  /\ target_address = LoadAddress
  /\ validation = "none"
  /\ readback = NONE
  /\ NoMonitor

\* send_packet from the read on, returning to the caller
SendPacket_Return ==
  /\ pc = "wait_ack"
  /\ lpc = "packet"
  /\ rxbuf' = AfterRead
  /\ last_resp' = ReadByte
  /\ packet_num' = IF IsAck(ReadByte) THEN packet_num + 1 ELSE packet_num
  /\ result' = IF IsAck(ReadByte) THEN "True" ELSE "False"
  /\ pc' = "returned"
  /\ UNCHANGED <<argvars, offset, packets_sent, total_packets, retries, chunk, message,
                 written, mark, acked, chunks, got_ready, naks, tx_count, eot_resp,
                 can_seen>>
  /\ UNCHANGED <<loadvars, monvars, ticks>>

NextPacket ==
  \/ SendPacket_Write
  \/ SendPacket_Return
  \/ PeerSend

SpecPacket == InitPacket /\ [][NextPacket]_vars

\* ------------------------------------------------- the four packet builders
\* The repository builds XMODEM packets in four places.  Each builder is run
\* on the same sequence number and the same 128-byte block, and the packet it
\* builds is appended to written.

\* xmodem_checksum of upload_xmodem.py
xmodem_checksum(d) == Sum(d) % 256

\* the padding of the examples: only a short block is extended
PadShort(d) == IF Len(d) < BlockSize THEN d \o Zeros(BlockSize - Len(d)) ELSE d

\* the packet of upload_xmodem.send_xmodem_packet
send_xmodem_packet(pn, d) ==
  <<1, pn % 256, BitNot8(pn)>> \o PadShort(d) \o <<xmodem_checksum(PadShort(d))>>

\* a complement taken from 256
Complement255_From256(n) == (256 - n) % 256

\* (255 - packet_num) & 0xFF of simple_xmodem.send_packet
Complement255(n) == (255 - n) % 256

\* the packet of simple_xmodem.send_packet; the sequence byte is packet_num
\* itself, which bytes() accepts in 0..255
simple_send_packet(pn, d) ==
  <<SOH, pn, Complement255(pn)>> \o PadShort(d) \o <<Sum(PadShort(d)) % 256>>

\* the assertions of create_xmodem_packet
ReferenceAccepts(pn, d) == Len(d) = BlockSize /\ 1 <= pn /\ pn <= 255

\* the packet of the test reference create_xmodem_packet
create_xmodem_packet(pn, d) == <<SOH, pn, 255 - pn>> \o d \o <<Sum(d) % 256>>

InitBuilders ==
  /\ data_len = BlockSize
  /\ data_seed \in 0..MaxSeed
  /\ max_retries = 0
  /\ calls_left = 0
  /\ pc = "idle"
  /\ packet_num \in 1..255
  /\ offset = 0
  /\ packets_sent = 0
  /\ total_packets = 0
  /\ retries = 0
  /\ chunk = Payload
  /\ result = "none"
  /\ message = "none"
  /\ rxbuf = <<>>
  /\ written = <<>>
  /\ mark = 0
  /\ acked = <<>>
  /\ chunks = <<>>
  /\ got_ready = FALSE
  /\ last_resp = NONE
  /\ naks = 0
  /\ tx_count = 0
  /\ eot_resp = NONE
  /\ can_seen = FALSE
  /\ lpc = "builders"
  /\ file_state = "ok"
  /\ execute = FALSE
  /\ port = "open"
  /\ exit_code = NONE
  /\ arrived = <<>>
  /\ stale_prompt = FALSE
  /\ target_address = LoadAddress
  /\ validation = "none"
  /\ readback = NONE
  /\ NoMonitor

\* everything a builder leaves alone
bframe == <<argvars, sendervars, rxbuf, file_state, execute, port, exit_code, arrived,
            stale_prompt, target_address, validation, readback, monvars, ticks>>

\* XModemSender.send_packet builds its packet
Build_LoadProgram ==
  /\ lpc = "builders"
  /\ Len(written) = 0
  /\ written' = Append(written, BuildPacket(packet_num, chunk))
  /\ UNCHANGED <<lpc, bframe>>

\* upload_xmodem.send_xmodem_packet builds its packet
Build_UploadXmodem ==
  /\ lpc = "builders"
  /\ Len(written) = 1
  /\ written' = Append(written, send_xmodem_packet(packet_num, chunk))
  /\ UNCHANGED <<lpc, bframe>>

\* simple_xmodem.send_packet builds its packet
Build_SimpleXmodem ==
  /\ lpc = "builders"
  /\ Len(written) = 2
  /\ written' = Append(written, simple_send_packet(packet_num, chunk))
  /\ UNCHANGED <<lpc, bframe>>

\* create_xmodem_packet builds its packet, or an assertion fails
Build_Reference ==
  /\ lpc = "builders"
  /\ Len(written) = 3
  /\ IF ReferenceAccepts(packet_num, chunk)
     THEN /\ written' = Append(written, create_xmodem_packet(packet_num, chunk))
          /\ UNCHANGED lpc
     ELSE /\ lpc' = "assertion"
          /\ UNCHANGED written
  /\ UNCHANGED bframe

NextBuilders ==
  \/ Build_LoadProgram
  \/ Build_UploadXmodem
  \/ Build_SimpleXmodem
  \/ Build_Reference

SpecBuilders == InitBuilders /\ [][NextBuilders]_vars

\* --------------------------------------- xmodem_upload.py: the injected NAK
\* upload_file waits for the receiver's NAK itself and then hands the XMODEM
\* library a getc that returns one NAK of its own making.  The library is
\* modelled as a caller of getc with any size, any number of times.

\* the passes of the wait loop (range(100) in the source)
WaitPasses == 3

\* the getc calls the library makes
MaxGetc == 3

\* the sizes the library asks for
GetcSizes == {1, 2}

\* a getc that injects whatever the size
Injects_AnySize(flag, size) == flag

\* `first_nak[0] and size == 1`
Injects(flag, size) == flag /\ size = 1

\* ser.read(size): the buffered bytes, at most size of them
SerRead(size) == SubSeq(rxbuf, 1, Min(size, Len(rxbuf)))

\* `x or None` on a bytes object
OrNone(b) == IF b = <<>> THEN [none |-> TRUE, bytes |-> <<>>]
             ELSE [none |-> FALSE, bytes |-> b]

InitUpload ==
  /\ data_len = BlockSize
  /\ data_seed = 0
  /\ max_retries = 0
  /\ calls_left = 0
  /\ InitSender
  /\ lpc = "xu_wait"
  /\ file_state = "ok"
  /\ execute = FALSE
  /\ port = "open"
  /\ exit_code = NONE
  /\ arrived = <<>>
  /\ stale_prompt = FALSE
  /\ target_address = LoadAddress
  /\ validation = "none"
  /\ readback = NONE
  /\ NoMonitor

\* everything upload_file leaves alone
xuframe == <<argvars, sendervars, written, file_state, execute, port, exit_code,
             arrived, stale_prompt, target_address, validation, readback, call,
             buffer, pending, mret, emitted>>

\* one pass of the wait loop, or its else branch after the last pass
XU_WaitPass ==
  /\ lpc = "xu_wait"
  /\ IF ticks = WaitPasses
     THEN /\ lpc' = "xu_failed"
          /\ UNCHANGED <<rxbuf, ticks, first_nak>>
     ELSE IF rxbuf # <<>>
     THEN /\ rxbuf' = Tail(rxbuf)
          /\ IF Head(rxbuf) = NAK
             THEN lpc' = "xu_modem" /\ first_nak' = TRUE /\ UNCHANGED ticks
             ELSE ticks' = ticks + 1 /\ UNCHANGED <<lpc, first_nak>>
     ELSE /\ ticks' = ticks + 1
          /\ UNCHANGED <<lpc, rxbuf, first_nak>>
  /\ UNCHANGED <<getc_log, xuframe>>

\* the library calls getc(size)
XU_Getc ==
  /\ lpc = "xu_modem"
  /\ Len(getc_log) < MaxGetc
  /\ \E size \in GetcSizes :
       IF Injects(first_nak, size)
       THEN /\ first_nak' = FALSE
            /\ getc_log' = Append(getc_log, [size |-> size, flag |-> first_nak,
                                             read |-> FALSE, got |-> <<>>,
                                             ret |-> OrNone(<<NAK>>)])
            /\ UNCHANGED rxbuf
       ELSE /\ rxbuf' = SubSeq(rxbuf, Len(SerRead(size)) + 1, Len(rxbuf))
            /\ getc_log' = Append(getc_log, [size |-> size, flag |-> first_nak,
                                             read |-> TRUE, got |-> SerRead(size),
                                             ret |-> OrNone(SerRead(size))])
            /\ UNCHANGED first_nak
  /\ UNCHANGED <<lpc, ticks, xuframe>>

\* the monitor puts a byte on the line: a NAK or another byte
XU_Peer ==
  /\ lpc \in {"xu_wait", "xu_modem"}
  /\ Len(rxbuf) <= MaxRx
  /\ \E b \in {ACK, NAK} : rxbuf' = Append(rxbuf, b)
  /\ UNCHANGED <<lpc, ticks, first_nak, getc_log, xuframe>>

NextUpload ==
  \/ XU_WaitPass
  \/ XU_Getc
  \/ XU_Peer

SpecUpload == InitUpload /\ [][NextUpload]_vars

\* ------------------------------------------- a receiver that answers in turn
\* An XMODEM receiver that keeps to the protocol: it sends its ready NAK
\* until a packet arrives and answers every write of the sender once, in
\* the order of the writes, but at a time of its own.  emitted records, for
\* every byte the receiver ever put on the line, the write it answers (0 for
\* a byte that answers none).

\* the ready bytes the receiver sends at most
MaxReady == 2

\* the entries of emitted that answer a write
Answers == {i \in 1..Len(emitted) : emitted[i].of > 0}

\* the write the receiver answers next
NextToAnswer == mark + Cardinality(Answers) + 1

\* the ready bytes sent so far
ReadySent == {i \in 1..Len(emitted) : emitted[i] = [of |-> 0, byte |-> NAK]}

\* the data packets the receiver acknowledged
AcceptedPackets ==
  {written[emitted[i].of] : i \in {j \in Answers : emitted[j].byte = ACK}} \ {<<EOT>>}

\* the sequence number the receiver expects next
Expected == Cardinality(AcceptedPackets) + 1

\* the answers to a write p: EOT is acknowledged; a packet with the expected
\* sequence number, or a repetition of the one before, is acknowledged or,
\* when it arrived damaged, refused; any other packet is refused
AnswersTo(p) ==
  IF p = <<EOT>> THEN {ACK}
  ELSE IF p[2] = Expected % 256 \/ (Expected > 1 /\ p[2] = (Expected - 1) % 256)
  THEN {ACK, NAK}
  ELSE {NAK}

\* everything the receiver leaves alone
pframe == <<argvars, sendervars, written, loadvars, call, buffer, pending, mret,
            first_nak, getc_log, ticks>>

\* the receiver is in receive mode and sends a ready NAK
PeerReady ==
  /\ lpc \in {"none", "t_drain", "t_transfer"}
  /\ pc # "returned"
  /\ Answers = {}
  /\ Cardinality(ReadySent) < MaxReady
  /\ Len(rxbuf) < MaxRx
  /\ rxbuf' = Append(rxbuf, NAK)
  /\ emitted' = Append(emitted, [of |-> 0, byte |-> NAK])
  /\ UNCHANGED pframe

\* the receiver answers the oldest write it has not answered yet
PeerAnswer ==
  /\ pc \notin {"idle", "returned"}
  /\ NextToAnswer <= Len(written)
  /\ Len(rxbuf) < MaxRx
  /\ \E b \in AnswersTo(written[NextToAnswer]) :
       /\ rxbuf' = Append(rxbuf, b)
       /\ emitted' = Append(emitted, [of |-> NextToAnswer, byte |-> b])
  /\ UNCHANGED pframe

\* one send_file call on a payload of two chunks
InitAnswering ==
  /\ data_len = BlockSize + 1
  /\ data_seed \in 0..MaxSeed
  /\ max_retries \in 1..MaxRetries
  /\ calls_left = 1
  /\ InitSender
  /\ NoMonitor
  /\ NoLoad

NextAnswering ==
  \/ SenderStep
  \/ PeerReady
  \/ PeerAnswer

SpecAnswering == InitAnswering /\ [][NextAnswering]_vars

\* ------------------------- test_program_loader.py: MonitorTester's upload
\* test_xmodem_upload writes the load command, reads whatever arrived during
\* the next half second and then runs its copy of XModemSender.send_file.

\* b'L 0300\r'
LoadAtCmd == <<76, 32, 48, 51, 48, 48, 13>>

\* the text the monitor prints before it is ready
BannerByte == Space

InitTestUpload ==
  /\ data_len = 24
  /\ data_seed = 1
  /\ max_retries = 1
  /\ calls_left = 1
  /\ InitSender
  /\ lpc = "t_command"
  /\ file_state = "ok"
  /\ execute = FALSE
  /\ port = "open"
  /\ exit_code = NONE
  /\ arrived = <<>>
  /\ stale_prompt = FALSE
  /\ target_address = LoadAddress
  /\ validation = "none"
  /\ readback = NONE
  /\ NoMonitor

\* everything the test leaves alone around send_file
tframe == <<argvars, sendervars, file_state, execute, port, exit_code, arrived,
            stale_prompt, target_address, validation, readback, monvars, ticks>>

\* self.ser.write(b'L 0300\r'); self.ser.flush()
T_WriteCommand ==
  /\ lpc = "t_command"
  /\ written' = Append(written, LoadAtCmd)
  /\ lpc' = "t_drain"
  /\ UNCHANGED <<rxbuf, tframe>>

\* one test of `while self.ser.in_waiting > 0`: read all that is waiting, or
\* leave the loop
T_Drain ==
  /\ lpc = "t_drain"
  /\ IF rxbuf # <<>>
     THEN rxbuf' = <<>> /\ UNCHANGED lpc
     ELSE lpc' = "t_transfer" /\ UNCHANGED rxbuf
  /\ UNCHANGED <<written, tframe>>

\* the monitor prints a character of its message
PeerBanner ==
  /\ lpc = "t_drain"
  /\ emitted = <<>>
  /\ Len(rxbuf) < MaxRx
  /\ rxbuf' = Append(rxbuf, BannerByte)
  /\ emitted' = Append(emitted, [of |-> 0, byte |-> BannerByte])
  /\ UNCHANGED pframe

NextTestUpload ==
  \/ T_WriteCommand
  \/ T_Drain
  \/ SenderStep
  \/ PeerBanner
  \/ PeerReady
  \/ PeerAnswer

SpecTestUpload == InitTestUpload /\ [][NextTestUpload]_vars


\* ------------------------------------------------------ a monitor session
\* The test helpers that talk to the monitor's command line: MonitorTester
\* (send_command, read_until_prompt) and MonitorHelper (read_until,
\* wait_for_prompt, examine, deposit).  Text is a sequence of character
\* codes.  One call is made; the monitor's reply reaches the line in pieces
\* of any size while the call's read loop runs; ticks counts the sleeps of
\* that loop since its start_time.

\* '\r'
CR == 13

\* '\n'
LF == 10

\* ':'
Colon == 58

\* a byte that is not ASCII and starts no UTF-8 sequence
HighByte == 255

\* the replacement character U+FFFD
Replacement == 65533

\* the loop's timeout, in sleeps
TimeoutTicks == 3

\* the longest reply to send_command and wait_for_prompt
MaxReply == 3

\* "0200"
Addr0200 == <<48, 50, 48, 48>>

\* "0300"
Addr0300 == <<48, 51, 48, 48>>

\* "AA"
ValAA == <<65, 65>>

\* "20"
Val20 == <<50, 48>>

\* "0200: AA\r\n> "
Reply0200 == Addr0200 \o <<Colon, Space>> \o ValAA \o <<CR, LF, PromptChar, Space>>

\* "0300: 5a\r\n> "
Reply0300 == Addr0300 \o <<Colon, Space, 53, 97, CR, LF, PromptChar, Space>>

\* the characters of the short replies: '>', ' ', 'A' and a non-ASCII byte
ReplyBytes == {PromptChar, Space, 65, HighByte}

\* every text of at most n characters of ReplyBytes
RECURSIVE TextsUpTo(_)
TextsUpTo(n) ==
  IF n = 0 THEN {<<>>}
  ELSE LET shorter == TextsUpTo(n - 1)
       IN shorter \cup {Append(t, c) : t \in {u \in shorter : Len(u) = n - 1},
                                       c \in ReplyBytes}

\* bytes.decode('ascii', errors='replace')
decode_replace(b) == [i \in 1..Len(b) |-> IF b[i] < 128 THEN b[i] ELSE Replacement]

\* bytes.decode('utf-8', errors='ignore'), for ASCII and bytes that start no
\* UTF-8 sequence
decode_ignore(b) == SelectSeq(b, LAMBDA c : c < 128)

\* a test for the marker at the front of the text
endswith_Front(s, suf) == Len(s) >= Len(suf) /\ SubSeq(s, 1, Len(suf)) = suf

\* s.endswith(suf)
endswith(s, suf) == Len(s) >= Len(suf) /\ SubSeq(s, Len(s) - Len(suf) + 1, Len(s)) = suf

\* `sub in s`
contains(sub, s) == \E i \in 0..(Len(s) - Len(sub)) : SubSeq(s, i + 1, i + Len(sub)) = sub

\* the ASCII characters for which str.isspace() holds
Whitespace == {9, 10, 11, 12, 13, 28, 29, 30, 31, 32}

\* str.isspace() of one ASCII character
IsSpace(c) == c \in Whitespace

\* s.lstrip()
RECURSIVE lstrip(_)
lstrip(s) == IF s # <<>> /\ IsSpace(Head(s)) THEN lstrip(Tail(s)) ELSE s

\* s.rstrip()
RECURSIVE rstrip(_)
rstrip(s) ==
  IF s # <<>> /\ IsSpace(s[Len(s)]) THEN rstrip(SubSeq(s, 1, Len(s) - 1)) ELSE s

\* s.strip()
strip(s) == rstrip(lstrip(s))

\* the index of the first character of s that is in set, Len(s) + 1 if none
FirstIndex(s, set) ==
  IF \E i \in 1..Len(s) : s[i] \in set
  THEN CHOOSE i \in 1..Len(s) : s[i] \in set /\ \A k \in 1..(i - 1) : s[k] \notin set
  ELSE Len(s) + 1

\* s.split(sep) for a separator of one character
RECURSIVE split(_, _)
split(s, sep) ==
  LET i == FirstIndex(s, {sep})
  IN IF i > Len(s) THEN <<s>>
     ELSE <<SubSeq(s, 1, i - 1)>> \o split(SubSeq(s, i + 1, Len(s)), sep)

\* s.split(): the fields between runs of whitespace, none of them empty
RECURSIVE split_ws(_)
split_ws(s) ==
  LET t == lstrip(s)
      n == FirstIndex(t, Whitespace)
  IN IF t = <<>> THEN <<>>
     ELSE <<SubSeq(t, 1, n - 1)>> \o split_ws(SubSeq(t, n, Len(t)))

\* s.upper() of ASCII text
upper(s) == [i \in 1..Len(s) |-> IF s[i] \in 97..122 THEN s[i] - 32 ELSE s[i]]

\* f'E {address}\r'
ExamineText(address) == <<69, Space>> \o address \o <<CR>>

\* f'D {address} {value}\r'
DepositText(address, value) == <<68, Space>> \o address \o <<Space>> \o value \o <<CR>>

\* send_slow(text): one write per character
send_slow(text) == [i \in 1..Len(text) |-> <<text[i]>>]

\* a return value
Returned(kind, text) == [kind |-> kind, text |-> text]

\* the loop of examine over the lines of the reply: the first line with a
\* colon whose second field begins with a two-character word gives that
\* word; an empty second field raises IndexError at `.split()[0]`
RECURSIVE examine_parse(_)
examine_parse(lines) ==
  IF lines = <<>> THEN Returned("None", <<>>)
  ELSE LET line == strip(Head(lines))
       IN IF ~contains(<<Colon>>, line) THEN examine_parse(Tail(lines))
          ELSE LET words == split_ws(strip(split(line, Colon)[2]))
               IN IF words = <<>> THEN Returned("IndexError", <<>>)
                  ELSE IF Len(words[1]) = 2 THEN Returned("str", upper(words[1]))
                  ELSE examine_parse(Tail(lines))

\* deposit's verdict on the reply
deposit_check(address, value, reply) ==
  IF contains(upper(address), upper(reply)) /\ contains(upper(value), upper(reply))
  THEN Returned("True", <<>>)
  ELSE Returned("False", <<>>)

\* wait_for_prompt's verdict on what read_until('>') returned
wait_for_prompt(reply) ==
  IF contains(<<PromptChar>>, reply) THEN Returned("True", <<>>)
  ELSE Returned("False", <<>>)

\* what the caller of read_until makes of the text it returned
AfterReadUntil(reply) ==
  CASE call.op = "wait_for_prompt" -> wait_for_prompt(reply)
    [] call.op = "examine" -> examine_parse(split(reply, LF))
    [] call.op = "deposit" -> deposit_check(call.address, call.value, reply)

\* the calls made: operation, arguments and the reply the monitor will give
Calls ==
  [op : {"send_command", "wait_for_prompt"}, address : {Addr0200}, value : {<<>>},
   response : TextsUpTo(MaxReply)]
  \cup [op : {"examine"}, address : {Addr0200, Addr0300}, value : {<<>>},
        response : {Reply0200, Reply0300}]
  \cup [op : {"deposit"}, address : {Addr0200, Addr0300}, value : {ValAA, Val20},
        response : {Reply0200, Reply0300}]

\* a helper object on an open port, before its call
InitMonitor ==
  /\ data_len = 0
  /\ data_seed = 0
  /\ max_retries = 0
  /\ calls_left = 0
  /\ InitSender
  /\ lpc = "m_start"
  /\ file_state = "ok"
  /\ execute = FALSE
  /\ port = "open"
  /\ exit_code = NONE
  /\ arrived = <<>>
  /\ stale_prompt = FALSE
  /\ target_address = LoadAddress
  /\ validation = "none"
  /\ readback = NONE
  /\ call \in Calls
  /\ buffer = <<>>
  /\ pending = call.response
  /\ ticks = 0
  /\ mret = Returned("running", <<>>)
  /\ first_nak = FALSE
  /\ getc_log = <<>>
  /\ emitted = <<>>

\* everything a monitor-session step leaves alone
mframe == <<argvars, sendervars, file_state, execute, port, exit_code, arrived,
            stale_prompt, target_address, validation, readback, call, first_nak,
            getc_log, emitted>>

\* the call returns
MonitorReturn(value) ==
  /\ mret' = value
  /\ lpc' = "m_returned"

\* MonitorTester.send_command(cmd): write the command and '\r', then read
MT_SendCommand ==
  /\ lpc = "m_start"
  /\ call.op = "send_command"
  /\ written' = Append(written, ExamineText(call.address))
  /\ lpc' = "m_reading"
  /\ UNCHANGED <<mframe, rxbuf, buffer, pending, ticks, mret>>

\* the clock test of read_until_prompt
TimedOut(t) == t > TimeoutTicks

\* one pass of the loop of MonitorTester.read_until_prompt
MT_ReadUntilPrompt ==
  /\ lpc = "m_reading"
  /\ call.op = "send_command"
  /\ LET output == IF rxbuf # <<>> THEN Append(buffer, Head(rxbuf)) ELSE buffer
     IN /\ buffer' = output
        /\ rxbuf' = IF rxbuf # <<>> THEN Tail(rxbuf) ELSE rxbuf
        /\ IF rxbuf # <<>> /\ endswith(output, <<PromptChar, Space>>)
           THEN MonitorReturn(Returned("str", decode_replace(output))) /\ UNCHANGED ticks
           ELSE IF TimedOut(ticks)
           THEN MonitorReturn(Returned("str", decode_replace(output))) /\ UNCHANGED ticks
           ELSE ticks' = ticks + 1 /\ UNCHANGED <<lpc, mret>>
  /\ UNCHANGED <<mframe, written, pending>>

\* MonitorHelper.wait_for_prompt(): nothing is written
MH_WaitForPrompt ==
  /\ lpc = "m_start"
  /\ call.op = "wait_for_prompt"
  /\ lpc' = "m_reading"
  /\ UNCHANGED <<mframe, written, rxbuf, buffer, pending, ticks, mret>>

\* MonitorHelper.examine(address): the command goes out through send_slow
MH_Examine ==
  /\ lpc = "m_start"
  /\ call.op = "examine"
  /\ written' = written \o send_slow(ExamineText(call.address))
  /\ lpc' = "m_reading"
  /\ UNCHANGED <<mframe, rxbuf, buffer, pending, ticks, mret>>

\* MonitorHelper.deposit(address, value): the command goes out through send_slow
MH_Deposit ==
  /\ lpc = "m_start"
  /\ call.op = "deposit"
  /\ written' = written \o send_slow(DepositText(call.address, call.value))
  /\ lpc' = "m_reading"
  /\ UNCHANGED <<mframe, rxbuf, buffer, pending, ticks, mret>>

\* one pass of the loop of MonitorHelper.read_until('>', timeout), the return
\* after the loop, and what the caller does with the text
MH_ReadUntil ==
  /\ lpc = "m_reading"
  /\ call.op \in {"wait_for_prompt", "examine", "deposit"}
  /\ IF ticks < TimeoutTicks
     THEN LET text == buffer \o decode_ignore(rxbuf)
          IN /\ buffer' = text
             /\ rxbuf' = <<>>
             /\ IF rxbuf # <<>> /\ contains(<<PromptChar>>, text)
                THEN MonitorReturn(AfterReadUntil(text)) /\ UNCHANGED ticks
                ELSE ticks' = ticks + 1 /\ UNCHANGED <<lpc, mret>>
     ELSE /\ MonitorReturn(AfterReadUntil(buffer))
          /\ UNCHANGED <<buffer, rxbuf, ticks>>
  /\ UNCHANGED <<mframe, written, pending>>

\* the next piece of the monitor's reply reaches the line
PeerDeliver ==
  /\ lpc = "m_reading"
  /\ pending # <<>>
  /\ \E k \in 1..Len(pending) :
       /\ rxbuf' = rxbuf \o SubSeq(pending, 1, k)
       /\ pending' = SubSeq(pending, k + 1, Len(pending))
  /\ UNCHANGED <<mframe, written, lpc, buffer, ticks, mret>>

NextMonitor ==
  \/ MT_SendCommand
  \/ MT_ReadUntilPrompt
  \/ MH_WaitForPrompt
  \/ MH_Examine
  \/ MH_Deposit
  \/ MH_ReadUntil
  \/ PeerDeliver

\* the thread inside MonitorTester.send_command keeps running: its write
\* completes and every sleep of its loop ends
SpecMonitor ==
  /\ InitMonitor
  /\ [][NextMonitor]_vars
  /\ WF_vars(MT_SendCommand)
  /\ WF_vars(MT_ReadUntilPrompt)



\* ------------------------------------------------------------------ claims
\* the number of chunks of the payload, ceil(len(data) / 128)
NumChunks == (data_len + 127) \div 128

\* the latest write of the current call
LastSent == Sent[Len(Sent)]

\* C1: every data packet written is 132 bytes: 0x01, the sequence byte, its
\* complement (255 - sequence) & 0xFF, the source chunk zero-padded to 128
\* bytes and the sum of those 128 bytes mod 256; a retransmission included.
\* (Stated of the latest write in the state that follows it: every packet
\* write leaves the sender waiting for the response.)
C1_PacketWellFormed ==
  pc = "wait_ack" =>
    LET p == written[Len(written)]
    IN  /\ p # <<EOT>>
        /\ Len(p) = 132
        /\ \A k \in 1..132 : p[k] \in 0..255
        /\ p[1] = 1
        /\ p[2] = packet_num % 256
        /\ p[3] = (255 - p[2]) % 256
        /\ Len(chunk) \in 1..128
        /\ \A k \in 1..128 :
             p[3 + k] = IF k <= Len(chunk)
                        THEN PayloadByte(data_seed, offset + k - 1)
                        ELSE 0
        /\ p[132] = Sum(SubSeq(p, 4, 131)) % 256

\* a one-byte last chunk of a non-zero payload is on the wire for the third time
C1_Witness ==
  /\ pc = "wait_ack"
  /\ retries = 2
  /\ Len(chunk) = 1
  /\ data_seed = 1
  /\ packet_num = 3

\* C2: when send_file returns True, every chunk of the payload was answered
\* by an ACK byte exactly once and in order: the acknowledged payload fields,
\* concatenated and cut to len(data), are the payload.
C2_SuccessMeansAllAcked ==
  result = "True" =>
    /\ Len(acked) = NumChunks
    /\ \A j \in 0..(data_len - 1) :
         acked[(j \div 128) + 1][(j % 128) + 1] = PayloadByte(data_seed, j)

\* a three-chunk transfer succeeded although its last chunk had to be resent
C2_Witness ==
  /\ result = "True"
  /\ data_len = 257
  /\ data_seed = 1
  /\ tx_count = 2

\* C3: a chunk that is answered by NAK max_retries times ends the transfer
\* with the max-retries failure after exactly max_retries transmissions of
\* that packet, and nothing is written after them (no end-of-transmission).
C3_AlwaysNakFails ==
  /\ (max_retries >= 1 /\ naks = max_retries) =>
       /\ pc = "returned"
       /\ result = "False"
       /\ message = "max_retries"
       /\ tx_count = max_retries
       /\ Len(Sent) >= max_retries
       /\ LastSent # <<EOT>>
       /\ \A i \in (Len(Sent) - max_retries + 1)..Len(Sent) : Sent[i] = LastSent
       /\ Len(Sent) > max_retries => Sent[Len(Sent) - max_retries] # LastSent
       /\ \A i \in 1..Len(Sent) : Sent[i] # <<EOT>>
  /\ (max_retries >= 1 /\ message = "max_retries") =>
       /\ tx_count = max_retries
       /\ retries = max_retries
       /\ last_resp \notin {ACK, NONE}

\* the third chunk was answered by NAK three times
C3_Witness ==
  /\ naks = 3
  /\ max_retries = 3
  /\ packets_sent = 2
  /\ pc = "returned"

\* C4: after max_retries - 1 NAKs the packet is sent once more, and an ACK
\* for that max_retries-th transmission lets the transfer go on with the next
\* chunk; a transfer fails only on a ready timeout, on max_retries
\* unacknowledged transmissions of one chunk or on an unacknowledged
\* end-of-transmission byte, so such a peer gets overall success.
C4_NaksThenAckSucceeds ==
  /\ (max_retries >= 2 /\ naks = max_retries - 1 /\ tx_count = max_retries - 1
        /\ last_resp = NAK) =>
       /\ pc = "send"
       /\ retries = max_retries - 1
       /\ result = "none"
  /\ (max_retries >= 1 /\ naks = max_retries - 1 /\ tx_count = max_retries
        /\ last_resp = ACK) =>
       /\ message # "max_retries"
       /\ pc \in {"send", "send_eot", "wait_eot", "returned"}
       /\ packets_sent = Len(acked)
       /\ offset = Min(packets_sent * 128, data_len)
       /\ pc = "send" => retries = 0 /\ offset < data_len
                          /\ chunk = DataSlice(offset, offset + 128)
       /\ pc # "send" => offset = data_len
       /\ pc \in {"send", "send_eot"} =>
            /\ Len(Sent) >= max_retries
            /\ \A i \in (Len(Sent) - max_retries + 1)..Len(Sent) : Sent[i] = LastSent
            /\ Len(Sent) > max_retries => Sent[Len(Sent) - max_retries] # LastSent
       /\ pc = "returned" => (result = "True" <=> eot_resp = ACK)
  /\ result = "False" =>
       \/ message = "ready_timeout" /\ Sent = <<>>
       \/ message = "max_retries" /\ tx_count = max_retries /\ last_resp # ACK
       \/ message = "no_eot_ack" /\ eot_resp # ACK

\* a transfer succeeded whose last chunk got two NAKs and then an ACK
C4_Witness ==
  /\ result = "True"
  /\ max_retries = 3
  /\ naks = 2
  /\ tx_count = 3
  /\ data_len = 129

\* C5: a Cancel byte (0x18) read in response to a packet ends the transfer
\* at once: the call has returned, nothing is retransmitted.
C5_CancelAborts ==
  last_resp = CAN => pc = "returned" /\ result = "False"

\* C6: the sequence byte on the wire is the starting sequence plus the number
\* of ACKs received so far, mod 256: it goes up by one per acknowledged chunk,
\* a NAK, a timeout or an unknown byte leaves it as it is (the same packet is
\* written again), 255 is followed by 0 and 0 by 1, and the complement byte
\* is (255 - sequence) & 0xFF throughout.
C6_SequencePerAck ==
  /\ pc = "wait_ack" =>
       /\ LastSent[2] = (Sent[1][2] + Len(acked)) % 256
       /\ LastSent[3] = (255 - LastSent[2]) % 256
       /\ LastSent[2] = packet_num % 256
  /\ (pc = "wait_ack" /\ tx_count >= 2) => Sent[Len(Sent) - 1] = LastSent
  /\ (pc = "wait_ack" /\ tx_count = 1 /\ Len(Sent) >= 2) =>
       LET prev == Sent[Len(Sent) - 1][2]
       IN  /\ LastSent[2] = IF prev = 255 THEN 0 ELSE prev + 1
           /\ Len(acked) >= 1
  /\ (pc = "send" /\ last_resp \in {NAK, TIMEOUT, CAN, PromptChar}) =>
       /\ retries >= 1
       /\ LastSent[2] = packet_num % 256

\* two chunks were acknowledged since the start at WrapFrom and the third is
\* on the wire for the second time
C6_Witness ==
  /\ pc = "wait_ack"
  /\ Len(acked) = 2
  /\ retries >= 1
  /\ Sent[1][2] = WrapFrom % 256
  /\ LastSent[2] = (WrapFrom + 2) % 256
  /\ LastSent[3] = 255 - LastSent[2]

\* C7: the first packet written by every send_file call carries sequence
\* byte 1, also when the sender object has run a transfer before.
C7_FirstSeqOne ==
  Sent # <<>> => Sent[1][2] = 1

C10_Chunking ==
  /\ Len(chunks) <= NumChunks
  /\ chunks # <<>> =>
       LET i == Len(chunks)
           c == chunks[i]
       IN  /\ Len(c) = IF i < NumChunks THEN 128 ELSE data_len - 128 * (NumChunks - 1)
           /\ Len(c) \in 1..128
           /\ \A k \in 1..Len(c) : c[k] = PayloadByte(data_seed, 128 * (i - 1) + k - 1)
           /\ pc \in {"send", "wait_ack"} => offset = 128 * (i - 1) /\ chunk = c
  /\ pc = "send_eot" =>
       /\ Len(chunks) = NumChunks
       /\ \A j \in 0..(data_len - 1) :
            chunks[(j \div 128) + 1][(j % 128) + 1] = PayloadByte(data_seed, j)
       /\ \A i \in 1..NumChunks :
            Len(chunks[i]) = IF i < NumChunks THEN 128 ELSE data_len - 128 * (NumChunks - 1)

\* a 257-byte payload was cut into three chunks, the last of one byte
C10_Witness ==
  /\ pc = "send_eot"
  /\ data_len = 257
  /\ data_seed = 1
  /\ Len(chunks) = 3
  /\ Len(chunks[3]) = 1

\* C11: reading the payload field (bytes 3..130, counted from 0) of the
\* packet on the wire gives the chunk followed by 128 - len(chunk) zero
\* bytes, and the checksum byte is the sum of that field & 0xFF, which is the
\* sum of the chunk alone & 0xFF: the padding adds nothing to the checksum.
C11_PadRoundTrip ==
  pc = "wait_ack" =>
    LET field == SubSeq(LastSent, 4, 131)
    IN  /\ Len(LastSent) = 132
        /\ Len(chunk) \in 1..128
        /\ SubSeq(field, 1, Len(chunk)) = chunk
        /\ \A k \in (Len(chunk) + 1)..128 : field[k] = 0
        /\ LastSent[132] = Sum(field) % 256
        /\ LastSent[132] = Sum(chunk) % 256

\* a 24-byte chunk of a non-zero payload is on the wire, padded by 104 bytes
C11_Witness ==
  /\ pc = "wait_ack"
  /\ Len(chunk) = 24
  /\ data_seed = 1
  /\ Sum(chunk) % 256 # 0
  /\ LastSent[4 + 24] = 0

\* C12: the address check accepts exactly $0200..$7FFF: $01FF and everything
\* below $0200 is TooLow, $0200 and $7FFF are Ok, $8000 and everything above
\* $7FFF is InReservedSpace.
C12_AddressRange ==
  validation # "none" =>
    /\ validation \in {"Ok", "TooLow", "InReservedSpace"}
    /\ validation = "Ok" <=> target_address \in 512..32767
    /\ validation = "TooLow" <=> target_address < 512
    /\ validation = "InReservedSpace" <=> target_address > 32767
    /\ target_address = 511 => validation = "TooLow"
    /\ target_address = 512 => validation = "Ok"
    /\ target_address = 32767 => validation = "Ok"
    /\ target_address = 32768 => validation = "InReservedSpace"

\* the first address of the ROM/IO window was checked and rejected
C12_Witness ==
  /\ target_address = 32768
  /\ validation = "InReservedSpace"

\* C13: a load to an address that the address check rejects ends with a
\* failure before anything is written to the transport: no '\r', no L
\* command, no packet.
C13_BadAddressWritesNothing ==
  validate(target_address) # "Ok" =>
    /\ written = <<>>
    /\ lpc = "ur_done" => result = "False"


\* the positions of the writes of a given byte string
WritesOf(cmd) == {i \in 1..Len(written) : written[i] = cmd}

\* the data packets among the writes of the current send_file call
PacketWrites == {i \in 1..Len(Sent) : Len(Sent[i]) = 132}

\* every packet written so far in this call was answered by an ACK byte
AlwaysAcked ==
  Cardinality(PacketWrites) = Len(acked) + (IF pc = "wait_ack" THEN 1 ELSE 0)

\* C14: the L command is written only by the prompt check, only when "> "
\* is among the bytes that arrived after the input buffer was discarded (a
\* prompt buffered before that is gone), and as the second write after the
\* '\r' that goes with the discard; as long as no prompt has arrived since,
\* nothing is written and the load can only end; a load that has ended
\* writes nothing more.
C14_StateOk ==
  /\ lpc \in {"start", "opening", "opened"} => written = <<>>
  /\ lpc = "probed" => written = <<ProbeCmd>>
  /\ WritesOf(LoadCmd) # {} =>
       /\ WritesOf(LoadCmd) = {2}
       /\ written[1] = <<13>>
       /\ written[2] = <<76, 13>>
  /\ (Len(written) >= 2) => written[2] = LoadCmd
  /\ (lpc = "exited" /\ stale_prompt) => written = <<ProbeCmd>>

C14_StepOk ==
  /\ (written = <<>> /\ written' # written) =>
       written' = <<ProbeCmd>> /\ rxbuf' = <<>> /\ arrived' = <<>>
  /\ (lpc = "probed" /\ written' # written) =>
       HasPrompt(arrived) /\ written' = <<ProbeCmd, LoadCmd>>
  /\ (lpc = "probed" /\ ~HasPrompt(arrived)) =>
       lpc' \in {"probed", "exited"} /\ written' = written
  /\ lpc = "exited" => written' = written

C14_PromptBeforeLoad == [](C14_StateOk) /\ [][C14_StepOk]_vars

\* a prompt was waiting when the input buffer was discarded, none came after
\* it, and the load ended with nothing but the '\r' written
C14_Witness ==
  /\ lpc = "exited"
  /\ exit_code = 1
  /\ stale_prompt
  /\ arrived = <<>>
  /\ written = <<ProbeCmd>>

\* C15: the J command is written at most once, only with execute and only
\* after send_file returned True; a transfer that failed, or during which the
\* receiver sent CAN, ends in a failed load without a J command.
C15_RunOnlyAfterSuccess ==
  /\ Cardinality(WritesOf(RunCmd)) <= 1
  /\ WritesOf(RunCmd) # {} => execute /\ result = "True" /\ WritesOf(<<EOT>>) # {}
  /\ (result = "False" \/ can_seen) =>
       /\ WritesOf(RunCmd) = {}
       /\ lpc = "exited" => exit_code # 0

C17_TwoPackets ==
  (data_len = 256 /\ AlwaysAcked) =>
    /\ Len(Sent) <= 3
    /\ Len(Sent) >= 1 =>
         /\ Len(Sent[1]) = 132
         /\ SubSeq(Sent[1], 1, 3) = <<1, 1, 254>>
         /\ \A k \in 1..128 : Sent[1][3 + k] = PayloadByte(data_seed, k - 1)
    /\ Len(Sent) >= 2 =>
         /\ Len(acked) >= 1
         /\ Len(Sent[2]) = 132
         /\ SubSeq(Sent[2], 1, 3) = <<1, 2, 253>>
         /\ \A k \in 1..128 : Sent[2][3 + k] = PayloadByte(data_seed, 127 + k)
    /\ Len(Sent) = 3 => Len(acked) = 2 /\ Sent[3] = <<4>>
    /\ pc = "wait_eot" => Len(Sent) = 3
    /\ (pc = "returned" /\ got_ready /\ max_retries >= 1) =>
         /\ Len(Sent) = 3
         /\ result = "True" <=> eot_resp = 6

\* a 256-byte transfer of a non-zero payload has completed without a resend
C17_Witness ==
  /\ data_len = 256
  /\ data_seed = 1
  /\ AlwaysAcked
  /\ result = "True"
  /\ Len(Sent) = 3

\* C18: load_program returns 0 only after the prompt, an ACK for every chunk
\* and an ACK for the end-of-transmission byte; it returns 2 exactly when the
\* port could not be opened, and 1 on every other failure.
C18_ExitCodes ==
  lpc = "exited" =>
    /\ exit_code \in {0, 1, 2}
    /\ exit_code = 0 =>
         /\ WritesOf(LoadCmd) # {}
         /\ Len(acked) = NumChunks
         /\ eot_resp = ACK
    /\ exit_code = 2 <=> port = "failed"

C20_VerifyEveryByte ==
  (lpc = "ur_done" /\ result = "True" /\ validate(target_address) = "Ok") =>
    /\ Cardinality({i \in 1..Len(written) : Len(written[i]) = 7 /\ written[i][1] = 69})
         = data_len
    /\ readback = PayloadByte(data_seed, 0)


\* the text ends with the prompt "> "
EndsWithPrompt(s) == Len(s) >= 2 /\ s[Len(s) - 1] = PromptChar /\ s[Len(s)] = Space

\* the lines of the text the running call has accumulated
Lines == split(buffer, LF)

\* a hexadecimal digit
IsHex(c) == c \in (48..57) \cup (65..70) \cup (97..102)

\* the fields of a text: its words between whitespace and colons
Fields(s) ==
  LET words == split_ws([i \in 1..Len(s) |-> IF s[i] = Colon THEN Space ELSE s[i]])
  IN {words[i] : i \in 1..Len(words)}

\* C21 (state part): during send_command no byte of the monitor's reply is
\* lost; the loop is still reading only while no prompt "> " has been read
\* and the clock is within one sleep of the timeout; it returns text, never an
\* error, of every byte it read (an ASCII byte unchanged), and it returns
\* either on the first prompt or after the timeout.
C21_StateOk ==
  call.op = "send_command" =>
    /\ buffer \o rxbuf \o pending = call.response
    /\ ticks <= TimeoutTicks + 1
    /\ lpc = "m_reading" => (~HasPrompt(buffer) /\ mret.kind = "running")
    /\ lpc = "m_returned" =>
         /\ mret.kind = "str"
         /\ Len(mret.text) = Len(buffer)
         /\ \A i \in 1..Len(buffer) : buffer[i] < 128 => mret.text[i] = buffer[i]
         /\ EndsWithPrompt(buffer) \/ ticks > TimeoutTicks
         /\ ~HasPrompt(SubSeq(buffer, 1, Len(buffer) - 1))

C22_ExamineAnchored ==
  (call.op = "examine" /\ lpc = "m_returned" /\ mret.kind = "str") =>
    \E i \in 1..Len(Lines) :
      LET line == Lines[i]
          n == Len(call.address)
      IN /\ Len(line) >= n + 4
         /\ upper(SubSeq(line, 1, n + 2)) = upper(call.address) \o <<Colon, Space>>
         /\ IsHex(line[n + 3])
         /\ IsHex(line[n + 4])
         /\ mret.text = upper(<<line[n + 3], line[n + 4]>>)

\* C23: deposit(address, value) succeeds only if the reply holds the address
\* and the value as two discrete fields.
C23_DepositFields ==
  (call.op = "deposit" /\ lpc = "m_returned" /\ mret.kind = "True") =>
    /\ upper(call.address) \in Fields(upper(buffer))
    /\ upper(call.value) \in Fields(upper(buffer))

\* C30: wait_for_prompt returns true exactly when the accumulated output ends
\* with "> "; a '>' in the middle of other output does not count.
C30_TrailingPrompt ==
  (call.op = "wait_for_prompt" /\ lpc = "m_returned") =>
    (mret.kind = "True" <=> EndsWithPrompt(buffer))


\* C24: send_packet refuses an empty chunk and a chunk longer than 128 bytes
\* and writes nothing then; no write is ever longer than 132 bytes.
C24_ChunkSizeChecked ==
  lpc = "packet" =>
    /\ (Len(chunk) = 0 \/ Len(chunk) > BlockSize) => written = <<>>
    /\ \A i \in 1..Len(written) : Len(written[i]) <= BlockSize + 4


\* C25 (one step): when the byte read after a packet is a NAK, nothing (read
\* timeout) or a byte that is neither ACK nor CAN, that read uses one retry,
\* writes nothing, leaves the sequence number, the offset and the count of
\* acknowledged packets alone, and leads to the next write or, with the
\* budget used up, to the failure; a write made with retries already used
\* repeats the previous write byte for byte.
C25_StepOk ==
  /\ (pc = "wait_ack" /\ pc' # "wait_ack" /\ ReadByte \in {NAK, TIMEOUT, PromptChar}) =>
       /\ retries' = retries + 1
       /\ packet_num' = packet_num
       /\ offset' = offset
       /\ packets_sent' = packets_sent
       /\ acked' = acked
       /\ written' = written
       /\ \/ pc' = "send"
          \/ pc' = "returned" /\ retries' >= max_retries /\ result' = "False"
  /\ (pc = "send" /\ retries > 0 /\ written' # written) =>
       /\ Len(written') = Len(written) + 1
       /\ written'[Len(written')] = written[Len(written)]

\* C25: a NAK, a read timeout and any byte other than ACK (and CAN) each
\* consume exactly one retry and lead to a byte-for-byte identical
\* retransmission; sequence number, payload offset and the count of
\* acknowledged packets do not change.
C25_RetryRetransmits == [][C25_StepOk]_vars

\* the first chunk is out for the third time, after a NAK and one more
\* response that was not an ACK
C25_Witness ==
  /\ pc = "wait_ack"
  /\ retries = 2
  /\ naks = 1
  /\ Len(Sent) = 3
  /\ Sent[3] = Sent[1]
  /\ packet_num = 1
  /\ acked = <<>>

\* C26: 0 <= retries <= max_retries in every state, and retries is 0 when a
\* packet is out that is the first of the transfer or differs from the write
\* before it (the first transmission of a new chunk).
C26_RetryBounds ==
  /\ retries >= 0
  /\ retries <= max_retries
  /\ (pc = "wait_ack" /\ (Len(Sent) = 1 \/ Sent[Len(Sent) - 1] # LastSent)) =>
       retries = 0

\* the second chunk is out for the first time after the first chunk needed a
\* retransmission
C26_Witness ==
  /\ pc = "wait_ack"
  /\ Len(Sent) = 3
  /\ Sent[1] = Sent[2]
  /\ Sent[3] # Sent[2]
  /\ Len(acked) = 1
  /\ retries = 0
  /\ max_retries = 2

\* C27 (state part): when the sender is about to write, the packet it wrote
\* last has had its response read.
C27_StateOk ==
  (pc \in {"send", "send_eot"} /\ Sent # <<>>) => last_resp # NONE

\* C27 (one step): a write is one packet or the end-of-transmission byte,
\* made when no response is awaited, and puts the sender in the wait for the
\* response; the wait ends by a step that writes nothing and takes at most
\* one byte off the line, the oldest.
C27_StepOk ==
  /\ written' # written =>
       /\ pc \in {"send", "send_eot"}
       /\ pc' \in {"wait_ack", "wait_eot"}
       /\ Len(written') = Len(written) + 1
       /\ rxbuf' = rxbuf
  /\ (pc \in {"wait_ack", "wait_eot"} /\ pc' # pc) =>
       /\ written' = written
       /\ rxbuf' = IF rxbuf = <<>> THEN <<>> ELSE Tail(rxbuf)

\* C27: the exchange is half-duplex: after writing a packet (or the
\* end-of-transmission byte) the sender writes nothing further until it has
\* read exactly one byte or the read timed out; at most one packet is
\* unanswered.
C27_HalfDuplex == []C27_StateOk /\ [][C27_StepOk]_vars

\* the second packet is out and unanswered, the first one was answered
C27_Witness ==
  /\ pc = "wait_ack"
  /\ Len(Sent) = 2
  /\ Len(acked) = 1
  /\ last_resp = NONE
  /\ rxbuf = <<>>

\* the end-of-transmission writes of the current transfer
EotWrites == {i \in 1..Len(Sent) : Sent[i] = <<EOT>>}

\* C28: the end-of-transmission byte is written exactly once in a transfer
\* whose chunks were all acknowledged, after the ACK for the last chunk, and
\* never in a transfer that ended by ready timeout or exhausted retries or in
\* which the receiver cancelled; it is not written again when its ACK is
\* missing.
C28_EotOnce ==
  lpc = "transfer" =>
    /\ Cardinality(EotWrites) <= 1
    /\ EotWrites # {} => (got_ready /\ Len(acked) = NumChunks)
    /\ message \in {"complete", "no_eot_ack"} => Cardinality(EotWrites) = 1
    /\ (message \in {"ready_timeout", "max_retries"} \/ can_seen) => EotWrites = {}

\* C29: a load whose transfer failed on exhausted retries reports the
\* sequence number of the chunk that was not delivered and exits non-zero.
C29_FailureNamesSequence ==
  (lpc = "exited" /\ message = "max_retries") =>
    /\ ReportedSequence(message) = SeqByte(packet_num)
    /\ exit_code \notin {0, NONE}


\* C36 (state part): while send_file waits for the receiver it has written
\* nothing and has no result, and its clock is within one sleep of the ready
\* timeout.
C36_StateOk ==
  pc = "await_nak" => (ticks <= ReadyTicks + 1 /\ Sent = <<>> /\ result = "none")

\* C36 (one step): a pass of the wait writes nothing.  On the ready byte it
\* ends the wait and the transfer starts.  On any other byte, or none, it
\* removes that byte, and the wait fails exactly when the clock has passed the
\* ready timeout; otherwise it goes on with a clock that has advanced.
C36_StepOk ==
  (pc = "await_nak" /\ Len(rxbuf') <= Len(rxbuf)) =>
    /\ written' = written
    /\ IF rxbuf # <<>> /\ Head(rxbuf) = NAK
       THEN pc' # "await_nak" /\ got_ready' /\ message' # "ready_timeout"
       ELSE /\ rxbuf' = IF rxbuf = <<>> THEN <<>> ELSE Tail(rxbuf)
            /\ ~got_ready'
            /\ IF ticks > ReadyTicks
               THEN pc' = "returned" /\ result' = "False" /\ message' = "ready_timeout"
               ELSE pc' = "await_nak" /\ ticks' > ticks /\ result' = "none"

\* C36: during the ready wait, bytes other than the ready byte are discarded:
\* they neither start the transfer nor fail it nor extend the deadline; the
\* wait ends only on the first ready byte (0x15) or when the ready timeout,
\* measured from the start of the wait, has expired.
C36_ReadyWait == []C36_StateOk /\ [][C36_StepOk]_vars

\* the wait has used its time, and a byte that is not the ready byte waits
C36_Witness ==
  /\ pc = "await_nak"
  /\ ticks = ReadyTicks + 1
  /\ rxbuf = <<PromptChar>>


\* C32 (state part): packets_sent is the number of ACK responses, never more
\* than total_packets, which is ceil(len(data) / 128) once the transfer has
\* started; the percentage shown after an ACK is within 0..100 and is 100
\* exactly when every chunk has been acknowledged.
C32_StateOk ==
  /\ packets_sent = Len(acked)
  /\ packets_sent <= total_packets
  /\ got_ready => total_packets = NumChunks
  /\ packets_sent >= 1 =>
       /\ Percent(packets_sent, total_packets) \in 0..100
       /\ Percent(packets_sent, total_packets) = 100 <=> Len(acked) = NumChunks

\* C32 (one step): packets_sent changes only by the read of an ACK after a
\* packet, then by exactly 1 and without lowering the percentage; a read of
\* anything else leaves it alone.
C32_StepOk ==
  /\ (pc = "wait_ack" /\ packets_sent' # packets_sent) =>
       /\ ReadByte = ACK
       /\ packets_sent' = packets_sent + 1
       /\ total_packets' = total_packets
       /\ packets_sent >= 1 =>
            Percent(packets_sent', total_packets) >= Percent(packets_sent, total_packets)
  /\ (pc = "wait_ack" /\ pc' # pc /\ ReadByte # ACK) => packets_sent' = packets_sent
  /\ pc \notin {"wait_ack", "await_nak"} => packets_sent' = packets_sent

\* C32: progress per acknowledged packet is monotonic: packets_sent goes up
\* by exactly 1 on each ACK and never on a retry, packets_sent <=
\* total_packets = ceil(L / 128), the percentage never decreases, stays
\* within 0..100 and is 100 exactly when the last chunk was acknowledged.
C32_Progress == []C32_StateOk /\ [][C32_StepOk]_vars

\* two of three chunks are acknowledged, one of them after a retransmission:
\* 66 percent
C32_Witness ==
  /\ pc = "send"
  /\ packets_sent = 2
  /\ total_packets = 3
  /\ Percent(packets_sent, total_packets) = 66
  /\ Len(Sent) = 3
  /\ Sent[1] = Sent[2]


\* C37: a load of an empty file ends with exit code 1 before the port is
\* opened: no serial handle exists, nothing is written and send_file is not
\* called; in no load is the end-of-transmission byte written for a payload
\* of zero packets.
C37_EmptyRejected ==
  /\ (lpc # "none" /\ data_len = 0) =>
       /\ lpc \in {"start", "exited"}
       /\ port = "unopened"
       /\ written = <<>>
       /\ pc = "idle"
       /\ calls_left = 1
       /\ lpc = "exited" => exit_code = 1
  /\ WritesOf(<<EOT>>) # {} => (NumChunks >= 1 /\ Len(acked) >= 1)

\* the load of a readable, empty file has ended
C37_Witness ==
  /\ data_len = 0
  /\ file_state = "ok"
  /\ lpc = "exited"
  /\ exit_code = 1
  /\ port = "unopened"


\* the data packets written by the current transfer
DataWrites == {i \in 1..Len(Sent) : Sent[i] # <<EOT>>}

\* C33 (state part): the transfer has written at most ceil(L / 128) *
\* max_retries data packets and at most one end-of-transmission byte; it has
\* a result exactly when it has returned, and then one of the four outcomes.
C33_StateOk ==
  /\ Cardinality(DataWrites) <= NumChunks * max_retries
  /\ Cardinality(EotWrites) <= 1
  /\ pc = "returned" <=> result \in {"True", "False"}
  /\ pc # "returned" => (result = "none" /\ message = "none")
  /\ pc = "returned" =>
       /\ message \in {"complete", "no_eot_ack", "max_retries", "ready_timeout"}
       /\ result = "True" <=> message = "complete"

\* C33: send_file terminates whatever the receiver does: it reaches exactly
\* one terminal outcome and stays there, having written at most
\* ceil(L / 128) * max_retries data packets and at most one
\* end-of-transmission byte.
C33_Terminates == []C33_StateOk /\ <>[](pc = "returned")

\* a transfer of two chunks failed on the second after using every attempt
\* on both
C33_Witness ==
  /\ pc = "returned"
  /\ message = "max_retries"
  /\ max_retries = 2
  /\ NumChunks = 2
  /\ Cardinality(DataWrites) = 4
  /\ Len(acked) = 1


\* C38: the packet builders agree: for every sequence number 1..255 and
\* every 128-byte block, the packets built by XModemSender.send_packet, by
\* upload_xmodem.send_xmodem_packet, by simple_xmodem.send_packet and by the
\* test reference create_xmodem_packet are the same bytes, and the reference
\* accepts the input.
C38_BuildersAgree ==
  lpc \in {"builders", "assertion"} =>
    /\ lpc = "builders"
    /\ \A i, j \in 1..Len(written) : written[i] = written[j]

\* the four builders have run on sequence number 255 and a block whose sum
\* exceeds one byte
C38_Witness ==
  /\ lpc = "builders"
  /\ Len(written) = 4
  /\ packet_num = 255
  /\ Sum(chunk) > 255
  /\ written[4][3] = 0


\* the getc calls that returned the NAK made by getc itself
Injected == {i \in 1..Len(getc_log) : ~getc_log[i].read}

\* the first getc call of size 1, Len(getc_log) + 1 if there is none
FirstOneByte ==
  LET ones == {i \in 1..Len(getc_log) : getc_log[i].size = 1}
  IN  IF ones = {} THEN Len(getc_log) + 1
      ELSE CHOOSE i \in ones : \A j \in ones : i <= j

\* C31 (state part): getc exists only after the wait loop consumed the real
\* NAK; it returned its own NAK on the first one-byte call and on no other
\* call; every other call returned the bytes read from the transport, or
\* None when there were none; and the flag is true exactly until that call.
C31_StateOk ==
  /\ lpc # "xu_modem" => (getc_log = <<>> /\ ~first_nak)
  /\ lpc \in {"xu_wait", "xu_modem", "xu_failed"} =>
       /\ Injected = {FirstOneByte} \cap (1..Len(getc_log))
       /\ Cardinality(Injected) <= 1
       /\ \A i \in 1..Len(getc_log) :
            /\ i \in Injected =>
                 getc_log[i].ret = [none |-> FALSE, bytes |-> <<NAK>>]
            /\ i \notin Injected =>
                 /\ getc_log[i].ret.bytes = getc_log[i].got
                 /\ getc_log[i].ret.none <=> getc_log[i].got = <<>>
                 /\ Len(getc_log[i].got) <= getc_log[i].size
       /\ lpc = "xu_modem" => (first_nak <=> Injected = {})

\* C31 (step part): a real read takes the returned bytes off the front of
\* the input buffer, the injected NAK takes nothing, and once false the
\* flag stays false.
C31_StepOk ==
  (lpc = "xu_modem" /\ getc_log' # getc_log) =>
    LET e == getc_log'[Len(getc_log')]
    IN  /\ rxbuf = e.got \o rxbuf'
        /\ ~e.read => rxbuf' = rxbuf
        /\ ~first_nak => ~first_nak'

\* C31: in xmodem_upload.upload_file getc returns a NAK of its own exactly
\* once, on the first one-byte read after the real NAK was consumed; every
\* other call returns only bytes read from the transport, or None, and the
\* flag never becomes true again.
C31_InjectedOnce == []C31_StateOk /\ [][C31_StepOk]_vars

\* a two-byte call came first and read a real byte, the next one-byte call
\* got the injected NAK with a byte waiting, and a third call read that byte
C31_Witness ==
  /\ lpc = "xu_modem"
  /\ Len(getc_log) = 3
  /\ getc_log[1].size = 2 /\ getc_log[1].got = <<ACK>>
  /\ getc_log[2].size = 1 /\ ~getc_log[2].read
  /\ getc_log[3].size = 1 /\ getc_log[3].got = <<NAK>>
  /\ ~first_nak


\* the receiver's record of the byte the sender reads next
HeadEmitted == emitted[Len(emitted) - Len(rxbuf) + 1]

\* the receiver acknowledged a packet of the k-th chunk
Accepted(k) == \E p \in AcceptedPackets : p[2] = k % 256

\* C34 (state part): a transfer that reports success had every chunk
\* acknowledged by the receiver.
C34_StateOk ==
  (pc = "returned" /\ result = "True") => \A k \in 1..NumChunks : Accepted(k)

\* C34 (step part): the sender goes on to the next chunk only on an ACK the
\* receiver sent in answer to a packet of the current chunk.
C34_StepOk ==
  (pc = "wait_ack" /\ offset' # offset) =>
    /\ rxbuf # <<>>
    /\ HeadEmitted.of > 0
    /\ written[HeadEmitted.of] = written[Len(written)]

\* C34: the sender advances from chunk k to chunk k+1 only on an ACK the
\* receiver emitted for chunk k; a late or duplicate ACK or a surplus ready
\* byte is never taken as the acknowledgement of a later chunk, and no
\* transfer reports success while the receiver never accepted some chunk.
C34_AckOfItsChunk == []C34_StateOk /\ [][C34_StepOk]_vars

\* the bytes a step took out of the input buffer
Consumed ==
  IF Len(emitted') # Len(emitted) THEN {}
  ELSE {emitted[i] : i \in (Len(emitted) - Len(rxbuf) + 1)..(Len(emitted) - Len(rxbuf'))}

\* C35 (state part): when send_file has returned and the receiver's ready
\* byte is no longer waiting in the input buffer, the first packet was sent.
C35_StateOk ==
  (lpc = "t_transfer" /\ pc = "returned" /\ ReadySent # {}
     /\ \A i \in ReadySent : i <= Len(emitted) - Len(rxbuf)) =>
  Sent # <<>>

\* C35 (step part): only the ready wait of send_file takes a ready byte out
\* of the input buffer.
C35_StepOk ==
  (lpc \in {"t_drain", "t_transfer"} /\ [of |-> 0, byte |-> NAK] \in Consumed) =>
    pc = "await_nak"

\* C35: the ready byte the receiver emits after the load command is always
\* observed by the ready wait of send_file: no read between the command and
\* the transfer consumes it, and a receiver that sent it gets its first
\* packet.
C35_ReadyObserved == []C35_StateOk /\ [][C35_StepOk]_vars

====
